---- MODULE Spec2Model ----
(***************************************************************************)
(* Feishu/Lark channel adapter: the inbound-message state machine of       *)
(* startFeishuProvider / handleIncomingMessage.                            *)
(*                                                                         *)
(* Each inbound event is one invocation of messageHandler and occupies one *)
(* slot h.  The closure variables of an invocation (placeholderId, done,   *)
(* timer) are functions over the slots.  A JavaScript turn (the code       *)
(* between two awaits) is one atomic action; every await is a separate     *)
(* action that resolves the awaited platform call with either outcome.     *)
(*                                                                         *)
(* The dispatcher (dispatchReplyWithBufferedBlockDispatcher) is the host's: *)
(* it calls deliver and onError any number of times, one at a time and     *)
(* awaiting each deliver, possibly never, and then fulfils or rejects.     *)
(* Platform calls may succeed or fail; update and delete succeed only on a *)
(* message that exists.                                                    *)
(*                                                                         *)
(* Optional values (x?: T) are sequences: <<>> is undefined, <<v>> is v.   *)
(* Text is a sequence of tokens: "sp" is one white-space character, "NR"   *)
(* the eight characters NO_REPLY, "@u" one "@_user_<digits>" placeholder,  *)
(* "bot" one of the bot's names, "a" any other word.                       *)
(***************************************************************************)
EXTENDS Integers, Sequences, FiniteSets, TLC

\* ------------------------------------------------------------------ bounds
MaxEvents == 2
MaxCallbacks == 2
MaxRequests == 2

\* ------------------------------------------------------- program constants
DefaultThinkingThresholdMs == 2500

Slots == 1..MaxEvents

\* ------------------------------------------------------------ pure helpers
\* x ?? d
Coalesce(x, d) == IF x = <<>> THEN d ELSE x[1]

RECURSIVE TrimStart(_)
TrimStart(s) ==
    IF s # <<>> /\ Head(s) = "sp" THEN TrimStart(Tail(s)) ELSE s

RECURSIVE TrimEnd(_)
TrimEnd(s) ==
    IF s # <<>> /\ s[Len(s)] = "sp" THEN TrimEnd(SubSeq(s, 1, Len(s) - 1)) ELSE s

\* String.prototype.trim
Trim(s) == TrimEnd(TrimStart(s))

\* String.prototype.endsWith("NO_REPLY")
EndsWithNoReply(s) == s # <<>> /\ s[Len(s)] = "NR"

\* text.replace(/@_user_\d+\s*/g, ""): every placeholder goes, with the
\* white space that follows it
RECURSIVE StripUserPlaceholders(_)
StripUserPlaceholders(s) ==
    IF s = <<>> THEN <<>>
    ELSE IF Head(s) = "@u" THEN StripUserPlaceholders(TrimStart(Tail(s)))
    ELSE <<Head(s)>> \o StripUserPlaceholders(Tail(s))

\* ----------------------------------------------------------- reply payload
\* payload of deliver: a string, or an object with optional text, body,
\* mediaUrl, mediaUrls
Payloads ==
    { [str |-> <<t>>, text |-> <<>>, body |-> <<>>, mediaUrl |-> <<>>, mediaUrls |-> <<>>] :
        t \in { <<>>, <<"a">>, <<"a", "sp", "NR">> } }
    \cup
    { [str |-> <<>>, text |-> t, body |-> b, mediaUrl |-> m, mediaUrls |-> <<>>] :
        t \in { <<>>, << <<>> >>, << <<"sp">> >>, << <<"a">> >>, << <<"NR", "sp">> >>,
                << <<"NR", "a">> >> },
        b \in { <<>>, << <<"a">> >> },
        m \in { <<>>, <<"">> } }
    \cup
    { [str |-> <<>>, text |-> t, body |-> <<>>, mediaUrl |-> m, mediaUrls |-> <<us>>] :
        t \in { <<>>, << <<"a">> >> },
        m \in { <<>>, <<"url1">> },
        us \in { <<>>, <<"url2">> } }

\* the string payloads "" and "a"
PayloadsPlain == { p \in Payloads : p.str \in { << <<>> >>, << <<"a">> >> } }

\* replyText = typeof p === "string" ? p : (p?.text ?? p?.body ?? "")
replyText(p) ==
    IF p.str # <<>> THEN p.str[1]
    ELSE IF p.text # <<>> THEN p.text[1]
    ELSE IF p.body # <<>> THEN p.body[1]
    ELSE <<>>

\* mediaUrl = typeof p === "string" ? undefined : (p?.mediaUrl ?? p?.mediaUrls?.[0])
mediaUrl(p) ==
    IF p.str # <<>> THEN <<>>
    ELSE IF p.mediaUrl # <<>> THEN p.mediaUrl
    ELSE IF p.mediaUrls # <<>> /\ p.mediaUrls[1] # <<>> THEN <<p.mediaUrls[1][1]>>
    ELSE <<>>

\* truthiness of an optional string: undefined and "" are falsy
HasMedia(p) == mediaUrl(p) # <<>> /\ mediaUrl(p)[1] # ""

trimmed(p) == Trim(replyText(p))

\* (!trimmed || trimmed === "NO_REPLY" || trimmed.endsWith("NO_REPLY")) && !mediaUrl
SkipReply(p) ==
    /\ (trimmed(p) = <<>> \/ trimmed(p) = <<"NR">> \/ EndsWithNoReply(trimmed(p)))
    /\ ~HasMedia(p)

\* ------------------------------------------------------------ configuration
\* account.config as read by the provider, with the documented group settings
\* config.domain: unset, the two documented values, and other strings
Domains == { <<>>, <<"feishu">>, <<"lark">>, <<"Lark">>, <<"">> }

Accounts ==
    [ connectionMode : { <<>>, <<"websocket">>, <<"webhook">> },
      thinkingThresholdMs : { <<>>, <<0>>, <<-1>> },
      requireMention : { <<>>, <<TRUE>>, <<FALSE>> },
      groupRequireMention : { <<>>, <<TRUE>>, <<FALSE>> },
      domain : Domains ]

\* accounts that leave the group settings and the domain unset
AccountsNoGroups ==
    { a \in Accounts : /\ a.requireMention = <<>> /\ a.groupRequireMention = <<>>
                       /\ a.domain = <<>> }

\* accounts that set nothing but the group settings
AccountsGroupsOnly ==
    { a \in Accounts : /\ a.thinkingThresholdMs = <<>> /\ a.connectionMode = <<>>
                       /\ a.domain = <<>> }

\* accounts that set nothing but the connection mode and the domain
AccountsTransport ==
    { a \in Accounts : /\ a.thinkingThresholdMs = <<>> /\ a.requireMention = <<>>
                       /\ a.groupRequireMention = <<>> }

NoAccount ==
    [ connectionMode |-> <<>>, thinkingThresholdMs |-> <<>>,
      requireMention |-> <<>>, groupRequireMention |-> <<>>, domain |-> <<>> ]

\* ----------------------------------------------------------- inbound events
InboundTexts ==
    { <<>>, <<"sp">>, <<"a">>, <<"@u", "sp">>, <<"@u", "sp", "a">>, <<"bot", "sp", "a">> }

MessageIds == { <<>>, <<"m1">>, <<"m2">> }

\* text messages that carry everything the handler reads
TextEvents ==
    [ message : {TRUE},
      chat_id : { <<"oc1">> },
      message_id : MessageIds,
      message_type : { "text" },
      content : { <<[json |-> TRUE, text |-> <<t>>]>> : t \in InboundTexts },
      chat_type : { <<>>, <<"p2p">>, <<"group">> },
      mentions : BOOLEAN,
      open_id : { <<>>, <<"ou1">> } ]

\* events that lack one of those things
DefectiveEvents ==
    [ message : BOOLEAN,
      chat_id : { <<>>, <<"oc1">> },
      message_id : MessageIds,
      message_type : { "text", "image" },
      content : { <<>>, <<[json |-> FALSE, text |-> <<>>]>>, <<[json |-> TRUE, text |-> <<>>]>>,
                  <<[json |-> TRUE, text |-> << <<"a">> >>]>> },
      chat_type : { <<"p2p">> },
      mentions : {FALSE},
      open_id : { <<"ou1">> } ]

Events == TextEvents \cup DefectiveEvents

\* events with one message id
EventsOneId == { d \in Events : d.message_id = <<"m1">> }

\* events of one sender
EventsOneSender == { d \in Events : d.open_id = <<"ou1">> }

\* direct messages "a" of one sender, each with a message id
EventsPlain ==
    { d \in TextEvents : /\ d.chat_type = <<"p2p">> /\ d.open_id = <<"ou1">>
                         /\ d.content[1].text = << <<"a">> >> /\ ~d.mentions
                         /\ d.message_id # <<>> }

\* ------------------------------------------------------------------- state
VARIABLES
    provider,       \* startFeishuProvider: account, thinkingThresholdMs, transports started
    seen,           \* dedup cache: message ids recorded by isDuplicate
    pc,             \* per invocation: position of handleIncomingMessage
    drop,           \* per invocation: the filter that dropped the event
    inboundCtx,     \* per invocation: the context handed to the dispatcher
    filter,         \* per invocation: what the group filter was asked and said
    placeholderId,  \* per invocation: closure variable placeholderId (0 is "")
    done,           \* per invocation: closure variable done
    timer,          \* per invocation: the threshold timer
    createRes,      \* per invocation: outcome of the placeholder create call
    stage,          \* per invocation: the await a running deliver is suspended at
    nCallbacks,     \* per invocation: deliver and onError calls made so far
    last,           \* per invocation: the latest deliver / onError / catch: the payload's
                    \* class, the reply text it sends, the placeholder id, placeholder
                    \* and create outcome it found, the platform calls it issued,
                    \* whether it rejected
    placeholder,    \* platform: state of the placeholder message of the invocation
    phOps,          \* platform: update and delete calls received for the placeholder
    early,          \* per invocation: the reply arrived while the timer was still armed
    logs,           \* log.error entries, by kind
    failures,       \* failures that happened inside the handler: <<site, log>>, the
                    \* log.error entry the code that handles the failure writes for it,
                    \* "" when it writes none
    web,            \* per HTTP request of the webhook server: its response and log
    status          \* statusSink patches: lastInboundAt / lastOutboundAt seen

vars == << provider, seen, pc, drop, inboundCtx, filter, placeholderId, done, timer,
           createRes, stage, nCallbacks, last, placeholder, phOps, early, logs,
           failures, status, web >>

hvars == << placeholderId, done, timer, createRes, stage, nCallbacks, last,
            placeholder, phOps, early >>

NoCtx == [ MessageSid |-> <<>>, ChatType |-> "", SessionKey |-> <<>> ]

NoFilter == [ group |-> FALSE, asked |-> FALSE, respond |-> FALSE ]

NoLast == [ op |-> "", skip |-> FALSE, media |-> FALSE, text |-> <<>>, hadPh |-> FALSE,
            phWas |-> "", created |-> "", calls |-> <<>>, failed |-> FALSE,
            threw |-> FALSE ]

Requests == 1..MaxRequests

NoRequest == [ state |-> "none", headersSent |-> FALSE, written |-> <<>>, logs |-> {} ]

Init ==
    /\ provider = [ started |-> FALSE, account |-> NoAccount,
                    thinkingThresholdMs |-> 0, sdkDomain |-> "", transports |-> {} ]
    /\ seen = {}
    /\ pc = [h \in Slots |-> "idle"]
    /\ drop = [h \in Slots |-> ""]
    /\ inboundCtx = [h \in Slots |-> NoCtx]
    /\ filter = [h \in Slots |-> NoFilter]
    /\ placeholderId = [h \in Slots |-> 0]
    /\ done = [h \in Slots |-> FALSE]
    /\ timer = [h \in Slots |-> "none"]
    /\ createRes = [h \in Slots |-> "none"]
    /\ stage = [h \in Slots |-> "idle"]
    /\ nCallbacks = [h \in Slots |-> 0]
    /\ last = [h \in Slots |-> NoLast]
    /\ placeholder = [h \in Slots |-> "none"]
    /\ phOps = [h \in Slots |-> <<>>]
    /\ early = [h \in Slots |-> FALSE]
    /\ logs = [h \in Slots |-> {}]
    /\ failures = [h \in Slots |-> {}]
    /\ status = [h \in Slots |-> {}]
    /\ web = [q \in Requests |-> NoRequest]

\* ---------------------------------------------------------------- provider
\* as Transports, without the return of the webhook branch
Transports_FallsThrough(connectionMode) ==
    IF connectionMode = "webhook" THEN {"webhook", "websocket"} ELSE {"websocket"}

\* the transports startFeishuProvider starts for a connection mode
Transports(connectionMode) ==
    IF connectionMode = "webhook" THEN {"webhook"} ELSE {"websocket"}

\* resolveLarkDomain of lark-domain.ts
resolveLarkDomainShared(domain) ==
    IF domain = <<"lark">> THEN "Lark" ELSE "Feishu"

\* as resolveLarkDomain, comparing without regard to case
resolveLarkDomain_IgnoreCase(domain) ==
    IF domain \in { <<"lark">>, <<"Lark">> } THEN "Lark" ELSE "Feishu"

\* the private resolveLarkDomain of the monitor
resolveLarkDomain(domain) ==
    IF domain = <<"lark">> THEN "Lark" ELSE "Feishu"

startFeishuProvider(account) ==
    /\ UNCHANGED web
    /\ ~provider.started
    /\ provider' =
         [ started |-> TRUE,
           account |-> account,
           thinkingThresholdMs |->
               Coalesce(account.thinkingThresholdMs, DefaultThinkingThresholdMs),
           sdkDomain |-> resolveLarkDomain(<< Coalesce(account.domain, "feishu") >>),
           transports |-> Transports(Coalesce(account.connectionMode, "websocket")) ]
    /\ UNCHANGED << seen, pc, drop, inboundCtx, filter, logs, failures, status >>
    /\ UNCHANGED hvars

\* ----------------------------------------------------------- webhook server
\* as WebhookCatch, writing the 500 response whatever was sent before
WebhookCatch_Always500(res) ==
    [ res EXCEPT !.state = "caught",
                 !.logs = @ \cup {"Webhook handler error"},
                 !.headersSent = TRUE,
                 !.written = Append(@, "500 Internal Server Error") ]

\* the .catch of the request listener: log, and 500 if no headers were sent
WebhookCatch(res) ==
    IF ~res.headersSent
    THEN [ res EXCEPT !.state = "caught",
                      !.logs = @ \cup {"Webhook handler error"},
                      !.headersSent = TRUE,
                      !.written = Append(@, "500 Internal Server Error") ]
    ELSE [ res EXCEPT !.state = "caught",
                      !.logs = @ \cup {"Webhook handler error"} ]

\* http.createServer listener: a request reaches webhookHandler(req, res)
RequestArrives(q) ==
    /\ "webhook" \in provider.transports
    /\ web[q].state = "none"
    /\ web' = [web EXCEPT ![q].state = "handling"]
    /\ UNCHANGED << provider, seen, pc, drop, inboundCtx, filter, logs, failures, status >>
    /\ UNCHANGED hvars

\* webhookHandler answers the request (challenge or event acknowledgement)
HandlerResponds(q) ==
    /\ web[q].state = "handling"
    /\ ~web[q].headersSent
    /\ web' = [web EXCEPT ![q].headersSent = TRUE,
                          ![q].written = Append(@, "handler response")]
    /\ UNCHANGED << provider, seen, pc, drop, inboundCtx, filter, logs, failures, status >>
    /\ UNCHANGED hvars

\* the promise of webhookHandler(req, res) resolves
HandlerResolves(q) ==
    /\ web[q].state = "handling"
    /\ web' = [web EXCEPT ![q].state = "resolved"]
    /\ UNCHANGED << provider, seen, pc, drop, inboundCtx, filter, logs, failures, status >>
    /\ UNCHANGED hvars

\* the promise of webhookHandler(req, res) rejects: the .catch runs
HandlerRejects(q) ==
    /\ web[q].state = "handling"
    /\ web' = [web EXCEPT ![q] = WebhookCatch(web[q])]
    /\ UNCHANGED << provider, seen, pc, drop, inboundCtx, filter, logs, failures, status >>
    /\ UNCHANGED hvars

\* ------------------------------------------------------------------ filters
\* dedup.js: an id already recorded is a duplicate; an event without an id
\* is never one
isDuplicate(messageId) == messageId # <<>> /\ messageId[1] \in seen

\* group-filter.js: the bot was mentioned, or the text addresses it by name
shouldRespondInGroup(text, mentions) ==
    mentions \/ \E i \in 1..Len(text) : text[i] = "bot"

\* the text of a text message: (parsed.text ?? "").trim(); <<>> when there
\* is none (wrong type, no content, not JSON, no or blank text)
ParsedText(message) ==
    IF message.message_type # "text" \/ message.content = <<>> THEN <<>>
    ELSE IF ~message.content[1].json THEN <<>>
    ELSE Trim(Coalesce(message.content[1].text, <<>>))

\* the text after the group branch
GroupText(message) ==
    IF message.chat_type = <<"group">>
    THEN Trim(StripUserPlaceholders(ParsedText(message)))
    ELSE ParsedText(message)

\* as DropReason, without the isDuplicate line
DropReason_NoDedup(data) ==
    IF ~data.message THEN "noMessage"
    ELSE IF data.chat_id = <<>> THEN "noChatId"
    ELSE IF data.message_type # "text" \/ data.content = <<>> THEN "notText"
    ELSE IF ~data.content[1].json THEN "badJson"
    ELSE IF ParsedText(data) = <<>> THEN "emptyText"
    ELSE IF data.chat_type = <<"group">> /\ GroupText(data) = <<>> THEN "emptyGroupText"
    ELSE IF data.chat_type = <<"group">>
            /\ ~shouldRespondInGroup(GroupText(data), data.mentions) THEN "groupFilter"
    ELSE ""

\* the first filter of handleIncomingMessage that drops the event, "" if none
DropReason(data) ==
    IF ~data.message THEN "noMessage"
    ELSE IF data.chat_id = <<>> THEN "noChatId"
    ELSE IF isDuplicate(data.message_id) THEN "duplicate"
    ELSE IF data.message_type # "text" \/ data.content = <<>> THEN "notText"
    ELSE IF ~data.content[1].json THEN "badJson"
    ELSE IF ParsedText(data) = <<>> THEN "emptyText"
    ELSE IF data.chat_type = <<"group">> /\ GroupText(data) = <<>> THEN "emptyGroupText"
    ELSE IF data.chat_type = <<"group">>
            /\ ~shouldRespondInGroup(GroupText(data), data.mentions) THEN "groupFilter"
    ELSE ""

\* isDuplicate was reached and recorded the id
RecordsId(data) ==
    data.message /\ data.chat_id # <<>> /\ data.message_id # <<>>
    /\ ~isDuplicate(data.message_id)

BuildInboundCtx(data) ==
    [ MessageSid |-> data.message_id,
      ChatType |-> IF data.chat_type = <<"p2p">> THEN "direct" ELSE "group",
      SessionKey |-> IF data.chat_type = <<"p2p">>
                     THEN <<"feishu", Coalesce(data.open_id, "")>>
                     ELSE <<"feishu", data.chat_id[1]>> ]

\* as messageHandler, without its try/catch
messageHandler_NoCatch(rejects) ==
    [ pc |-> IF rejects THEN "rejected" ELSE "returned", logs |-> {} ]

\* messageHandler: what the registered handler settles with, and logs, when
\* handleIncomingMessage returns or rejects
messageHandler(rejects) ==
    [ pc |-> "returned",
      logs |-> IF rejects THEN {"Message handler error"} ELSE {} ]

\* as ArmTimer, arming the timer for a threshold of 0 as well
ArmTimer_NonNegative(thresholdMs) == IF thresholdMs >= 0 THEN "armed" ELSE "none"

\* timer = ctx.thinkingThresholdMs > 0 ? setTimeout(...) : null
ArmTimer(thresholdMs) == IF thresholdMs > 0 THEN "armed" ELSE "none"

\* as InboundStatus, with the status patch sent before the filters
InboundStatus_BeforeFilters(r) == {"lastInboundAt"}

\* ctx.statusSink?.({ lastInboundAt }) comes after the filters: r is the
\* filter that dropped the event, "" if none
InboundStatus(r) == IF r = "" THEN {"lastInboundAt"} ELSE {}

\* ---------------------------------------------------------- inbound message
\* handleIncomingMessage up to its first await: the filters, the status
\* patch, the runtime check, the timer, the call of the dispatcher
handleIncomingMessage(h, data, runtimeOk) ==
    /\ UNCHANGED web
    /\ provider.started
    /\ pc[h] = "idle"
    /\ \A k \in Slots : k < h => pc[k] # "idle"
    /\ LET r == DropReason(data)
           group == data.chat_type = <<"group">>
           asked == group /\ r \in {"", "groupFilter"}
       IN  /\ seen' = IF RecordsId(data) THEN seen \cup {data.message_id[1]} ELSE seen
           /\ drop' = [drop EXCEPT ![h] = r]
           /\ filter' = [filter EXCEPT ![h] =
                  [ group |-> group /\ r \in {"", "groupFilter", "emptyGroupText"},
                    asked |-> asked,
                    respond |-> asked /\ shouldRespondInGroup(GroupText(data), data.mentions) ]]
           /\ status' = [status EXCEPT ![h] = @ \cup InboundStatus(r)]
           /\ IF r # ""
              THEN /\ pc' = [pc EXCEPT ![h] = "dropped"]
                   /\ UNCHANGED << logs, inboundCtx, timer >>
              ELSE /\ IF ~runtimeOk
                      THEN /\ logs' = [logs EXCEPT ![h] = @ \cup {"not available"}]
                           /\ pc' = [pc EXCEPT ![h] = messageHandler(FALSE).pc]
                           /\ UNCHANGED << inboundCtx, timer >>
                      ELSE /\ inboundCtx' = [inboundCtx EXCEPT ![h] = BuildInboundCtx(data)]
                           /\ timer' = [timer EXCEPT ![h] =
                                  ArmTimer(provider.thinkingThresholdMs)]
                           /\ pc' = [pc EXCEPT ![h] = "dispatching"]
                           /\ UNCHANGED logs
    /\ UNCHANGED << provider, failures, placeholderId, done, createRes, stage,
                    nCallbacks, last, placeholder, phOps, early >>

\* ------------------------------------------------------- placeholder timer
\* the setTimeout callback up to its await: returns at once when done,
\* issues the placeholder create call otherwise
\* as TimerFires, with done shared by all invocations
TimerFires_SharedDone(h) ==
    /\ UNCHANGED web
    /\ timer[h] = "armed"
    /\ timer' = [timer EXCEPT ![h] =
           IF \E k \in Slots : done[k] THEN "spent" ELSE "creating"]
    /\ UNCHANGED << provider, seen, pc, drop, inboundCtx, filter, placeholderId, done,
                    createRes, stage, nCallbacks, last, placeholder, phOps, early,
                    logs, failures, status >>

TimerFires(h) ==
    /\ UNCHANGED web
    /\ timer[h] = "armed"
    /\ timer' = [timer EXCEPT ![h] = IF done[h] THEN "spent" ELSE "creating"]
    /\ UNCHANGED << provider, seen, pc, drop, inboundCtx, filter, placeholderId, done,
                    createRes, stage, nCallbacks, last, placeholder, phOps, early,
                    logs, failures, status >>

\* the create call settles: with a message id, without one, or by throwing
CreateOutcomes == {"ok", "noid", "fail"}

\* as RecordedId, with the id assigned before the call has settled
RecordedId_BeforeSettled(h, res) == h

\* placeholderId = res?.data?.message_id ?? "", skipped when create throws;
\* the platform's id of the message is the slot of the invocation
RecordedId(h, res) == IF res = "ok" THEN h ELSE 0

CreateResolves(h, res) ==
    /\ UNCHANGED web
    /\ timer[h] = "creating"
    /\ timer' = [timer EXCEPT ![h] = "spent"]
    /\ createRes' = [createRes EXCEPT ![h] = res]
    /\ placeholderId' = [placeholderId EXCEPT ![h] = RecordedId(h, res)]
    /\ placeholder' = [placeholder EXCEPT ![h] = IF res = "ok" THEN "live" ELSE @]
    /\ failures' = [failures EXCEPT ![h] =
           IF res = "fail" THEN @ \cup {<<"create", "">>} ELSE @]
    /\ UNCHANGED << provider, seen, pc, drop, inboundCtx, filter, done, stage,
                    nCallbacks, last, phOps, early, logs, status >>

\* ---------------------------------------------------------- platform calls
Call(fn, id, text) == [ fn |-> fn, id |-> id, text |-> text ]

\* the platform can carry out an update or a delete only on a message that
\* exists
CanSucceed(h) == placeholder[h] \in {"live", "updated"}

\* as ReplyArrived, with both lines forgotten
ReplyArrived_Forgets(h) == UNCHANGED << done, timer >>

\* done = true; if (timer) clearTimeout(timer)
ReplyArrived(h) ==
    /\ done' = [done EXCEPT ![h] = TRUE]
    /\ timer' = [timer EXCEPT ![h] = IF @ = "armed" THEN "cleared" ELSE @]

NoteEarly(h) == early' = [early EXCEPT ![h] = @ \/ timer[h] = "armed"]

\* ------------------------------------------------------------------ deliver
\* as FirstStage, without the branch that updates the placeholder
FirstStage_NoUpdate(p, ph) ==
    IF SkipReply(p) THEN (IF ph # 0 THEN "delEmpty" ELSE "idle")
    ELSE IF HasMedia(p) THEN (IF ph # 0 THEN "delMedia" ELSE "media")
    ELSE "text"

\* the call deliver issues first for a payload, given the placeholder id:
\* the stage it then awaits at ("idle": it returns without a call)
FirstStage(p, ph) ==
    IF SkipReply(p) THEN (IF ph # 0 THEN "delEmpty" ELSE "idle")
    ELSE IF HasMedia(p) THEN (IF ph # 0 THEN "delMedia" ELSE "media")
    ELSE IF ph # 0 THEN "update"
    ELSE "text"

StageCall(st, p, ph) ==
    CASE st = "delEmpty" -> <<Call("deleteMessage", ph, <<>>)>>
      [] st = "delMedia" -> <<Call("deleteMessage", ph, <<>>)>>
      [] st = "media"    -> <<Call("sendMediaMessage", 0, replyText(p))>>
      [] st = "update"   -> <<Call("updateMessage", ph, replyText(p))>>
      [] st = "text"     -> <<Call("sendTextMessage", 0, replyText(p))>>
      [] OTHER           -> <<>>

PhOp(st) ==
    CASE st \in {"delEmpty", "delMedia"} -> <<"delete">>
      [] st = "update" -> <<"update">>
      [] OTHER -> <<>>

\* deliver up to its first await
deliver(h, p) ==
    /\ UNCHANGED web
    /\ pc[h] = "dispatching"
    /\ stage[h] = "idle"
    /\ nCallbacks[h] < MaxCallbacks
    /\ nCallbacks' = [nCallbacks EXCEPT ![h] = @ + 1]
    /\ ReplyArrived(h)
    /\ NoteEarly(h)
    /\ LET ph == placeholderId[h]
           st == FirstStage(p, ph)
       IN  /\ stage' = [stage EXCEPT ![h] = st]
           /\ last' = [last EXCEPT ![h] =
                  [ op |-> "deliver", skip |-> SkipReply(p), media |-> HasMedia(p),
                    text |-> IF SkipReply(p) THEN <<>> ELSE replyText(p),
                    hadPh |-> ph # 0, phWas |-> placeholder[h], created |-> createRes[h],
                    calls |-> StageCall(st, p, ph), failed |-> FALSE,
                    threw |-> FALSE ]]
           /\ phOps' = [phOps EXCEPT ![h] = @ \o PhOp(st)]
           /\ status' = [status EXCEPT ![h] =
                  IF SkipReply(p) THEN @ ELSE @ \cup {"lastOutboundAt"}]
    /\ UNCHANGED << provider, seen, pc, drop, inboundCtx, filter, placeholderId,
                    createRes, placeholder, logs, failures >>

\* what deliver does when the call it awaits settles: the next stage, the
\* placeholder id, whether it logs, whether it rejects
AfterCall(st, ok, ph) ==
    CASE st = "delEmpty" ->
           [ stage |-> "idle", ph |-> ph, log |-> FALSE, threw |-> ~ok ]
      [] st = "delMedia" ->
           IF ok THEN [ stage |-> "media", ph |-> 0, log |-> FALSE, threw |-> FALSE ]
           ELSE [ stage |-> "idle", ph |-> ph, log |-> TRUE, threw |-> FALSE ]
      [] st = "update" ->
           [ stage |-> "idle", ph |-> IF ok THEN 0 ELSE ph, log |-> ~ok, threw |-> FALSE ]
      [] OTHER ->
           [ stage |-> "idle", ph |-> ph, log |-> ~ok, threw |-> FALSE ]

\* the platform's side of a settled call
PlatformAfter(st, ok, was) ==
    IF ~ok THEN was
    ELSE IF st \in {"delEmpty", "delMedia"} THEN "deleted"
    ELSE IF st = "update" THEN "updated"
    ELSE was

FailureSite(st) ==
    CASE st = "delEmpty" -> "deliverEmptyDelete"
      [] st = "delMedia" -> "deliverMediaDelete"
      [] st = "update"   -> "deliverUpdate"
      [] st = "media"    -> "deliverSendMedia"
      [] OTHER           -> "deliverSendText"

\* deliver resumes after an await
deliverResumes(h, ok) ==
    /\ UNCHANGED web
    /\ pc[h] = "dispatching"
    /\ stage[h] \in {"delEmpty", "delMedia", "media", "update", "text"}
    /\ (ok /\ stage[h] \in {"delEmpty", "delMedia", "update"}) => CanSucceed(h)
    /\ LET st == stage[h]
           a == AfterCall(st, ok, placeholderId[h])
       IN  /\ stage' = [stage EXCEPT ![h] = a.stage]
           /\ placeholderId' = [placeholderId EXCEPT ![h] = a.ph]
           /\ placeholder' = [placeholder EXCEPT ![h] = PlatformAfter(st, ok, @)]
           /\ logs' = [logs EXCEPT ![h] =
                  IF a.log THEN @ \cup {"Failed to send reply"} ELSE @]
           /\ failures' = [failures EXCEPT ![h] =
                  IF ok THEN @
                  ELSE @ \cup {<<FailureSite(st),
                                 IF a.log THEN "Failed to send reply" ELSE "">>}]
           /\ last' = [last EXCEPT ![h].calls =
                           IF a.stage = "media"
                           THEN @ \o <<Call("sendMediaMessage", 0, last[h].text)>>
                           ELSE @,
                       ![h].failed = ~ok,
                       ![h].threw = a.threw]
    /\ UNCHANGED << provider, seen, pc, drop, inboundCtx, filter, done, timer,
                    createRes, nCallbacks, phOps, early, status >>

\* ------------------------------------------------------------------ onError
\* onError is synchronous: the delete it issues is not awaited and its
\* rejection is swallowed by .catch(() => {})
onError(h, ok) ==
    /\ UNCHANGED web
    /\ pc[h] = "dispatching"
    /\ stage[h] = "idle"
    /\ nCallbacks[h] < MaxCallbacks
    /\ nCallbacks' = [nCallbacks EXCEPT ![h] = @ + 1]
    /\ ReplyArrived(h)
    /\ NoteEarly(h)
    /\ logs' = [logs EXCEPT ![h] = @ \cup {"Dispatcher error"}]
    /\ LET ph == placeholderId[h]
       IN  /\ (ph = 0 => ok)
           /\ (ok /\ ph # 0) => CanSucceed(h)
           /\ last' = [last EXCEPT ![h] =
                  [ op |-> "onError", skip |-> FALSE, media |-> FALSE, text |-> <<>>,
                    hadPh |-> ph # 0, phWas |-> placeholder[h], created |-> createRes[h],
                    calls |-> IF ph # 0 THEN <<Call("deleteMessage", ph, <<>>)>> ELSE <<>>,
                    failed |-> ~ok, threw |-> FALSE ]]
           /\ phOps' = [phOps EXCEPT ![h] = IF ph # 0 THEN @ \o <<"delete">> ELSE @]
           /\ placeholder' = [placeholder EXCEPT ![h] =
                  IF ph # 0 /\ ok THEN "deleted" ELSE @]
           /\ failures' = [failures EXCEPT ![h] =
                  (@ \cup {<<"dispatcher", "Dispatcher error">>})
                  \cup (IF ok THEN {} ELSE {<<"onErrorDelete", "">>})]
    /\ UNCHANGED << provider, seen, pc, drop, inboundCtx, filter, placeholderId,
                    createRes, stage, status >>

\* ----------------------------------------------------- the dispatch settles
\* the awaited dispatch promise fulfils: handleIncomingMessage returns
dispatchResolves(h) ==
    /\ UNCHANGED web
    /\ pc[h] = "dispatching"
    /\ stage[h] = "idle"
    /\ pc' = [pc EXCEPT ![h] = messageHandler(FALSE).pc]
    /\ UNCHANGED << provider, seen, drop, inboundCtx, filter, logs, failures, status >>
    /\ UNCHANGED hvars

\* the awaited dispatch promise rejects: the catch block up to its await
dispatchThrows(h) ==
    /\ UNCHANGED web
    /\ pc[h] = "dispatching"
    /\ stage[h] = "idle"
    /\ ReplyArrived(h)
    /\ NoteEarly(h)
    /\ logs' = [logs EXCEPT ![h] = @ \cup {"Dispatch error"}]
    /\ failures' = [failures EXCEPT ![h] = @ \cup {<<"dispatch", "Dispatch error">>}]
    /\ LET ph == placeholderId[h]
       IN  /\ last' = [last EXCEPT ![h] =
                  [ op |-> "catch", skip |-> FALSE, media |-> FALSE, text |-> <<>>,
                    hadPh |-> ph # 0, phWas |-> placeholder[h], created |-> createRes[h],
                    calls |-> IF ph # 0 THEN <<Call("deleteMessage", ph, <<>>)>> ELSE <<>>,
                    failed |-> FALSE, threw |-> FALSE ]]
           /\ phOps' = [phOps EXCEPT ![h] = IF ph # 0 THEN @ \o <<"delete">> ELSE @]
           /\ pc' = [pc EXCEPT ![h] =
                  IF ph # 0 THEN "catchDelete" ELSE messageHandler(FALSE).pc]
    /\ UNCHANGED << provider, seen, drop, inboundCtx, filter, placeholderId, createRes,
                    stage, nCallbacks, placeholder, status >>

\* the delete awaited in the catch block settles; when it rejects,
\* handleIncomingMessage rejects into messageHandler
catchResumes(h, ok) ==
    /\ UNCHANGED web
    /\ pc[h] = "catchDelete"
    /\ ok => CanSucceed(h)
    /\ pc' = [pc EXCEPT ![h] = messageHandler(~ok).pc]
    /\ logs' = [logs EXCEPT ![h] = @ \cup messageHandler(~ok).logs]
    /\ failures' = [failures EXCEPT ![h] =
           IF ok THEN @ ELSE @ \cup {<<"catchDelete", "Message handler error">>}]
    /\ placeholder' = [placeholder EXCEPT ![h] = IF ok THEN "deleted" ELSE @]
    /\ last' = [last EXCEPT ![h].failed = ~ok, ![h].threw = ~ok]
    /\ UNCHANGED << provider, seen, drop, inboundCtx, filter, placeholderId, done,
                    timer, createRes, stage, nCallbacks, phOps, early, status >>

\* ----------------------------------------------------------- specifications
\* Spec: one inbound event, every account that leaves the group settings
\* unset, the whole reply lifecycle
Next ==
    \/ \E a \in AccountsNoGroups : startFeishuProvider(a)
    \/ \E d \in EventsOneId, r \in BOOLEAN : handleIncomingMessage(1, d, r)
    \/ TimerFires(1)
    \/ \E res \in CreateOutcomes : CreateResolves(1, res)
    \/ \E p \in Payloads : deliver(1, p)
    \/ \E ok \in BOOLEAN : deliverResumes(1, ok)
    \/ \E ok \in BOOLEAN : onError(1, ok)
    \/ dispatchResolves(1)
    \/ dispatchThrows(1)
    \/ \E ok \in BOOLEAN : catchResumes(1, ok)

Spec == Init /\ [][Next]_vars

\* SpecInbound: several inbound events in any order of arrival and
\* settling, every group setting, a dispatcher that settles without calling
\* back
NextInbound ==
    \/ \E a \in AccountsGroupsOnly : startFeishuProvider(a)
    \/ \E h \in Slots, d \in EventsOneSender : handleIncomingMessage(h, d, TRUE)
    \/ \E h \in Slots, d \in EventsPlain : handleIncomingMessage(h, d, FALSE)
    \/ \E h \in Slots : dispatchResolves(h)

SpecInbound == Init /\ [][NextInbound]_vars

\* the provider and the HTTP requests of its webhook server
NextWebhook ==
    \/ \E a \in AccountsTransport : startFeishuProvider(a)
    \/ \E q \in Requests : RequestArrives(q)
    \/ \E q \in Requests : HandlerResponds(q)
    \/ \E q \in Requests : HandlerResolves(q)
    \/ \E q \in Requests : HandlerRejects(q)

SpecWebhook == Init /\ [][NextWebhook]_vars

\* the two invocations that run side by side in SpecConcurrent
Concurrent == {1, 2}

\* SpecConcurrent: two direct messages handled side by side, their timers,
\* create calls, replies and errors interleaved in every order; the
\* dispatcher calls back once for each message
NextConcurrent ==
    \/ startFeishuProvider(NoAccount)
    \/ \E h \in Concurrent, d \in EventsPlain : handleIncomingMessage(h, d, TRUE)
    \/ \E h \in Concurrent : TimerFires(h)
    \/ \E h \in Concurrent, res \in CreateOutcomes : CreateResolves(h, res)
    \/ \E h \in Concurrent, p \in PayloadsPlain : nCallbacks[h] = 0 /\ deliver(h, p)
    \/ \E h \in Concurrent, ok \in BOOLEAN : deliverResumes(h, ok)
    \/ \E h \in Concurrent, ok \in BOOLEAN : nCallbacks[h] = 0 /\ onError(h, ok)
    \/ \E h \in Concurrent : dispatchResolves(h)
    \/ \E h \in Concurrent : dispatchThrows(h)
    \/ \E h \in Concurrent, ok \in BOOLEAN : catchResumes(h, ok)

SpecConcurrent == Init /\ [][NextConcurrent]_vars

\* ------------------------------------------------------------------ claims
Delete(h) == Call("deleteMessage", h, <<>>)

\* nothing more will happen to the placeholder create call of h
CreateSettled(h) == timer[h] \notin {"armed", "creating"}

\* the dispatcher handed h to deliver or onError, or threw
Replied(h) == last[h].op # ""

\* C1: a placeholder that was created is updated or deleted. Once the
\* handler has returned after a reply, an empty reply or an error, and the
\* create call has settled, a placeholder that was created has received an
\* update or a delete call.
C1_NoOrphan ==
    \A h \in Slots :
        (pc[h] = "returned" /\ Replied(h) /\ CreateSettled(h) /\ createRes[h] = "ok")
            => phOps[h] # <<>>

\* C2: a message id is dispatched at most once. No two invocations hand the
\* same message id to the dispatcher.
C2_DispatchOnce ==
    \A m \in {"m1", "m2"} :
        Cardinality({ h \in Slots : inboundCtx[h].MessageSid = <<m>> }) <= 1

\* the same id arrived twice: once dispatched, once dropped as duplicate
C2_Witness ==
    /\ seen = {"m1"}
    /\ \E h1, h2 \in Slots :
           /\ inboundCtx[h1].MessageSid = <<"m1">>
           /\ drop[h2] = "duplicate"

\* C3: a reply (deliver, onError, or a throw of the dispatch) that arrives
\* while the timer is still armed leaves no placeholder: the create call is
\* never issued.
C3_ReplyFirstNoPlaceholder ==
    \A h \in Slots :
        early[h] =>
            /\ timer[h] \notin {"creating", "spent"}
            /\ createRes[h] = "none"
            /\ placeholder[h] = "none"

\* the reply was delivered before the timer fired, and the handler returned
C3_Witness ==
    \E h \in Slots :
        early[h] /\ last[h].op = "deliver" /\ pc[h] = "returned" /\ timer[h] = "cleared"

C5_EmptyDeletesPlaceholder ==
    \A h \in Slots :
        (last[h].op = "deliver" /\ last[h].skip /\ stage[h] = "idle" /\ CreateSettled(h)) =>
            /\ \A i \in 1..Len(last[h].calls) : last[h].calls[i].fn = "deleteMessage"
            /\ placeholder[h] = "live" => last[h].calls # <<>>

\* the group setting in force for the chat: the group's own, else the
\* account's, else true
RequireMention ==
    Coalesce(provider.account.groupRequireMention,
             Coalesce(provider.account.requireMention, TRUE))

\* C6: a group message the mention filter rejects is dispatched exactly
\* when the group configuration sets requireMention to false.
C6_GroupFilterUnlessDisabled ==
    \A h \in Slots :
        (filter[h].asked /\ ~filter[h].respond) =>
            (pc[h] = "dropped" <=> RequireMention)

\* C7: the provider starts exactly one transport: the webhook server iff
\* connectionMode is "webhook", the WebSocket client otherwise.
C7_OneTransport ==
    provider.started =>
        /\ Cardinality(provider.transports) = 1
        /\ "webhook" \in provider.transports
               <=> provider.account.connectionMode = <<"webhook">>
        /\ "websocket" \in provider.transports
               <=> provider.account.connectionMode # <<"webhook">>

\* started without a connection mode: the WebSocket client alone
C7_Witness ==
    /\ provider.started
    /\ provider.account.connectionMode = <<>>
    /\ provider.transports = {"websocket"}

\* C8: a dispatch error cleans up the placeholder. After onError or the
\* catch block, done is set and the timer is not armed, and, the create
\* call settled, a placeholder that is still on the platform has been sent
\* a delete by the error path.
C8_ErrorCleansUp ==
    \A h \in Slots :
        (last[h].op \in {"onError", "catch"} /\ timer[h] # "creating") =>
            /\ done[h]
            /\ timer[h] # "armed"
            /\ placeholder[h] = "live" => last[h].calls = <<Delete(h)>>

\* C9 as stated: the handler never rejects, and every failure of the
\* dispatch or of a send, update or delete call is logged.
C9_EveryFailureLogged ==
    \A h \in Slots :
        /\ pc[h] # "rejected"
        /\ \A f \in failures[h] : f[1] # "create" => f[2] # ""

\* the failures the handler leaves without a log entry of its own
Unlogged == {"create", "onErrorDelete", "deliverEmptyDelete"}

\* C9: the handler never rejects; the dispatch throwing, onError, a call
\* failing inside the try block of deliver and the delete of the catch
\* block failing are each logged; only the placeholder create, the delete
\* issued by onError and the delete of an empty reply fail without a log
\* entry.
C9_HandlerNeverRejects ==
    \A h \in Slots :
        /\ pc[h] # "rejected"
        /\ \A f \in failures[h] :
               IF f[1] \in Unlogged THEN f[2] = "" ELSE f[2] # "" /\ f[2] \in logs[h]

\* the delete of the catch block failed and the handler returned
C9_Witness ==
    \E h \in Slots :
        /\ pc[h] = "returned"
        /\ <<"catchDelete", "Message handler error">> \in failures[h]

\* C10: a failed placeholder create is swallowed. No id is recorded,
\* nothing is logged for it, the handler does not reject, and a later reply
\* with text and no media is one sendTextMessage.
C10_CreateFailureSwallowed ==
    \A h \in Slots :
        createRes[h] = "fail" =>
            /\ placeholderId[h] = 0
            /\ pc[h] # "rejected"
            /\ failures[h] = {<<"create", "">>} => logs[h] = {}
            /\ (last[h].op = "deliver" /\ last[h].created = "fail"
                    /\ ~last[h].skip /\ ~last[h].media)
                   => last[h].calls = <<Call("sendTextMessage", 0, last[h].text)>>

\* the create failed, then a text reply was sent as a new message
C10_Witness ==
    \E h \in Slots :
        /\ createRes[h] = "fail"
        /\ last[h].op = "deliver" /\ last[h].created = "fail"
        /\ ~last[h].skip /\ ~last[h].media
        /\ stage[h] = "idle"
        /\ logs[h] = {}

\* C11: when the webhook handler rejects for a request, the error is logged
\* and the response is a 500 "Internal Server Error" exactly when no headers
\* had been sent; when headers had been sent nothing more is written.
C11_Webhook500IfUnsent ==
    [][ \A q \in Requests :
          (web[q].state = "handling" /\ web'[q].state = "caught") =>
              /\ "Webhook handler error" \in web'[q].logs
              /\ IF web[q].headersSent
                 THEN web'[q].written = web[q].written
                 ELSE web'[q].written = Append(web[q].written, "500 Internal Server Error")
      ]_vars

\* one request was answered with the 500, another rejected after the
\* handler had responded and got nothing more
C11_Witness ==
    \E q, r \in Requests :
        /\ web[q].state = "caught" /\ web[q].written = << "500 Internal Server Error" >>
        /\ web[r].state = "caught" /\ web[r].written = << "handler response" >>

\* C12: a threshold of 0 or less disables the placeholder, an unset one
\* is 2500 ms. With a threshold of 0 or less no invocation has a timer and
\* none issues the create call.
C12_ZeroThresholdNoPlaceholder ==
    provider.started =>
        /\ provider.account.thinkingThresholdMs = <<>>
               => provider.thinkingThresholdMs = 2500
        /\ provider.account.thinkingThresholdMs # <<>>
               => provider.thinkingThresholdMs = provider.account.thinkingThresholdMs[1]
        /\ provider.thinkingThresholdMs <= 0 =>
               \A h \in Slots :
                   /\ timer[h] = "none"
                   /\ createRes[h] = "none"
                   /\ placeholder[h] = "none"

\* threshold 0: a reply was delivered and the handler returned, no timer
C12_Witness ==
    /\ provider.account.thinkingThresholdMs = <<0>>
    /\ \E h \in Slots :
           pc[h] = "returned" /\ last[h].op = "deliver" /\ timer[h] = "none"

ReplyCalls == {"updateMessage", "sendTextMessage", "sendMediaMessage"}

\* C13: a deliver whose payload is not empty / NO_REPLY makes exactly one
\* reply attempt, also when a call fails. Once it has returned it has
\* issued exactly one of updateMessage, sendTextMessage, sendMediaMessage,
\* it has not rejected, and a failed call is logged.
C13_OneReplyAttempt ==
    \A h \in Slots :
        (last[h].op = "deliver" /\ ~last[h].skip /\ stage[h] = "idle") =>
            /\ Cardinality({ i \in 1..Len(last[h].calls) :
                               last[h].calls[i].fn \in ReplyCalls }) = 1
            /\ ~last[h].threw
            /\ last[h].failed => "Failed to send reply" \in logs[h]

\* what a dropped event leaves of an invocation
Untouched(h) ==
    /\ inboundCtx[h] = NoCtx
    /\ status[h] = {}
    /\ logs[h] = {}
    /\ failures[h] = {}
    /\ timer[h] = "none"
    /\ createRes[h] = "none"
    /\ placeholder[h] = "none"
    /\ phOps[h] = <<>>
    /\ last[h] = NoLast
    /\ nCallbacks[h] = 0

\* C14: an event dropped by a filter has no effect beyond the dedup
\* record. The step that drops it changes nothing but the position of its
\* invocation, the filter that dropped it and the dedup cache, and the
\* invocation stays without dispatch, timer, platform call and status patch.
C14_DroppedHasNoEffect ==
    [][ \A h \in Slots :
          (pc[h] = "idle" /\ pc'[h] = "dropped") =>
              /\ UNCHANGED << provider, inboundCtx, status, logs, failures >>
              /\ UNCHANGED hvars
              /\ Untouched(h)'
              /\ \A k \in Slots \ {h} : pc'[k] = pc[k]
      ]_vars

\* a group message was dropped by the group filter while another
\* invocation is in its dispatch
C14_Witness ==
    \E h, k \in Slots :
        /\ pc[h] = "dropped" /\ drop[h] = "groupFilter"
        /\ pc[k] = "dispatching"

\* C15: resolveLarkDomain returns the Lark domain exactly for "lark" and the
\* Feishu domain for every other input, undefined included; the private
\* copy agrees with the shared one on every input, and the SDK domain of a
\* started provider is what the shared one gives for the configured domain.
C15_ResolveLarkDomain ==
    /\ \A d \in Domains :
           /\ resolveLarkDomain(d) = resolveLarkDomainShared(d)
           /\ resolveLarkDomainShared(d) = "Lark" <=> d = <<"lark">>
           /\ resolveLarkDomainShared(d) # "Lark" => resolveLarkDomainShared(d) = "Feishu"
    /\ provider.started =>
           provider.sdkDomain = resolveLarkDomainShared(provider.account.domain)

\* providers were started for the lark domain
C15_Witness ==
    /\ provider.started
    /\ provider.account.domain = <<"lark">>
    /\ provider.sdkDomain = "Lark"

\* C16: once handleIncomingMessage has returned, the timer is cancelled or
\* spent: no step issues the placeholder create call of a returned
\* invocation.
C16_NoCreateAfterReturn ==
    [][ \A h \in Slots :
          pc[h] = "returned" => ~(timer[h] # "creating" /\ timer'[h] = "creating")
      ]_vars

\* C17: a placeholder gets one terminal operation. A deliver, onError or
\* catch that starts when the placeholder has already been deleted or
\* updated issues no updateMessage and no deleteMessage.
C17_OneTerminalOp ==
    \A h \in Slots :
        last[h].phWas \in {"deleted", "updated"} =>
            \A i \in 1..Len(last[h].calls) :
                last[h].calls[i].fn \notin {"deleteMessage", "updateMessage"}

\* the placeholder state of one inbound message
PerMessage(h) ==
    << placeholderId[h], done[h], timer[h], createRes[h], stage[h], last[h],
       placeholder[h], phOps[h] >>

\* C18: placeholder state is per inbound message. No step changes the
\* placeholder state of two messages; an update or delete call issued for a
\* message targets the placeholder its own timer created; and a timer ends
\* without its create call only when its own message was replied to.
C18_PerMessageIsolation ==
    [][ \A h \in Slots :
          /\ \A k \in Slots \ {h} :
                 PerMessage(h)' = PerMessage(h) \/ PerMessage(k)' = PerMessage(k)
          /\ \A i \in 1..Len(last'[h].calls) :
                 last'[h].calls[i].fn \in {"updateMessage", "deleteMessage"} =>
                     /\ last'[h].calls[i].id = h
                     /\ createRes'[h] = "ok"
          /\ (timer[h] = "armed" /\ timer'[h] \in {"cleared", "spent"}) => done'[h]
      ]_vars

\* one message's reply replaced its placeholder while the other message,
\* still waiting for its reply, has the placeholder its own timer created
C18_Witness ==
    \E h, k \in Slots :
        /\ h # k
        /\ placeholder[h] = "updated" /\ done[h]
        /\ pc[k] = "dispatching" /\ ~done[k] /\ ~early[k]
        /\ placeholder[k] = "live" /\ placeholderId[k] = k

\* C19: what is dispatched as "group" has passed the group filter, and
\* what is dispatched as "direct" is keyed by the sender, not by the chat.
C19_GroupPassedFilter ==
    \A h \in Slots :
        inboundCtx[h] # NoCtx =>
            IF inboundCtx[h].ChatType = "group"
            THEN filter[h].asked /\ filter[h].respond
            ELSE /\ inboundCtx[h].ChatType = "direct"
                 /\ inboundCtx[h].SessionKey \in {<<"feishu", "ou1">>, <<"feishu", "">>}

====
